---- MODULE Spec2Model ----
(***************************************************************************)
(* Model of src/main.py: TelegramMegaDownloadBot.                          *)
(*                                                                         *)
(* One inbound Telegram update is one request r.  A request runs one of    *)
(* the four handlers (start_command, download_command, handle_message,     *)
(* handle_document); every awaited call to the chat platform or to the     *)
(* Mega client is one step, and each such call either returns or raises.   *)
(* Strings the code inspects (links, lines of an uploaded list) are        *)
(* sequences of one-character strings, so that startswith and strip are    *)
(* computed character by character.                                        *)
(***************************************************************************)
EXTENDS Integers, Sequences, FiniteSets, TLC

VARIABLES
    update,          \* r -> the inbound update handled by request r
    pc,              \* r -> the call site the handler of r is suspended at
    links,           \* r -> handle_document's `links`
    idx,             \* r -> handle_document's loop counter `i`
    mega_link,       \* r -> download_from_public_link's `mega_link`
    message,         \* r -> what the progress message `message` shows
    file_name,       \* r -> download_from_public_link's `file_name`
    downloaded_file, \* r -> the handler's `downloaded_file`
    calls,           \* r -> external calls of the running download_from_public_link
    log,             \* r -> calls issued by the handler of r itself
    files,           \* download directory: file name -> request that wrote it
    temp_files,      \* file ids whose temp_<file_id>.txt exists
    token,           \* the value of BOT_TOKEN
    process,         \* where the process is: in __main__, ended, or polling
    fmt              \* a running call of format_size

vars == <<update, pc, links, idx, mega_link, message, file_name,
          downloaded_file, calls, log, files, temp_files, token, process, fmt>>

----------------------------------------------------------------------------
(* Bounds and inputs *)

\* longest uploaded list, in lines
MaxLines == 2

Requests == {1, 2}

None == "None"

\* the allow-list, and the identities that send updates
AUTHORIZED_USERS == {123456789}
Users == {123456789, 42}

\* 'https://mega.nz/'
PREFIX == <<"h","t","t","p","s",":","/","/","m","e","g","a",".","n","z","/">>

LinkA == PREFIX \o <<"f","i","l","e","/","A">>
LinkB == PREFIX \o <<"f","i","l","e","/","B">>
\* wrong scheme
HttpA == <<"h","t","t","p",":","/","/","m","e","g","a",".","n","z","/","A">>
\* the prefix in mid-string
MidA  == <<"x">> \o LinkA
NotALink == <<"n","o","t","-","a","-","l","i","n","k">>

\* words of a /download command and texts of a plain message
Texts == {LinkA, LinkB, HttpA, MidA, NotALink}

NL == <<"\n">>
SP == <<" ">>
CR == <<"\r">>
FF == <<"\f">>
EM == <<"U+2003">>

\* lines of an uploaded list, each with its terminator
Lines == { NL,
           LinkA \o NL,
           LinkB \o NL,
           LinkA \o SP \o FF \o EM \o CR \o NL,
           SP \o LinkA \o NL,
           HttpA \o NL,
           LinkB \o CR }

\* names the metadata lookup reports
FileNames == {"a.zip", "b.zip"}

RECURSIVE Flatten(_)
Flatten(ls) == IF ls = <<>> THEN <<>> ELSE Head(ls) \o Flatten(Tail(ls))

LineLists == UNION { [1..n -> Lines] : n \in 0..MaxLines }

\* the texts of the uploaded lists
Contents == { Flatten(ls) : ls \in LineLists }

----------------------------------------------------------------------------
(* Pure helpers *)

\* mutation of Authorized: the allow-list test left out
Authorized_anyone(user_id) == TRUE

\* user_id not in AUTHORIZED_USERS, negated
Authorized(user_id) == user_id \in AUTHORIZED_USERS

\* mutation of StartsWith: `p in s` instead of s.startswith(p)
Contains(s, p) ==
    \E k \in 1..Len(s) : k + Len(p) - 1 <= Len(s) /\ SubSeq(s, k, k + Len(p) - 1) = p

\* str.startswith
StartsWith(s, p) == Len(s) >= Len(p) /\ SubSeq(s, 1, Len(p)) = p

\* A character is written as the string that holds it; a character above
\* U+00FF, which no string of a module can hold, is written as the string of
\* its code point, as in "U+2003".

\* the white space above U+00FF
WideSpace ==
    {"U+1680", "U+2000", "U+2001", "U+2002", "U+2003", "U+2004", "U+2005",
     "U+2006", "U+2007", "U+2008", "U+2009", "U+200A", "U+2028", "U+2029",
     "U+202F", "U+205F", "U+3000"}

\* the characters str.strip() removes: blank, LF, tab, CR, form feed, then
\* U+000B, U+001C to U+001F, U+0085 and U+00A0 written as themselves, and the
\* white space above U+00FF
WhiteSpace ==
    {" ", "\n", "\t", "\r", "\f", "", "", "", "", "", "", " "}
    \cup WideSpace

IsSpace(c) == c \in WhiteSpace

RECURSIVE LStrip(_)
LStrip(s) == IF s # <<>> /\ IsSpace(Head(s)) THEN LStrip(Tail(s)) ELSE s

RECURSIVE RStrip(_)
RStrip(s) == IF s # <<>> /\ IsSpace(s[Len(s)])
             THEN RStrip(SubSeq(s, 1, Len(s) - 1)) ELSE s

\* str.strip
Strip(s) == RStrip(LStrip(s))

\* iterating a file opened in text mode: the lines of the text, each ended
\* by LF, CR LF or CR, the terminator read as "\n"
LineBreaks(text) == { i \in 1..Len(text) : text[i] \in {"\n", "\r"} }

RECURSIVE FileLines(_)
FileLines(text) ==
    IF text = <<>> THEN <<>>
    ELSE IF LineBreaks(text) = {} THEN <<text>>
    ELSE LET i == CHOOSE b \in LineBreaks(text) :
                      \A c \in LineBreaks(text) : b <= c
             last == IF text[i] = "\r" /\ i < Len(text) /\ text[i + 1] = "\n"
                     THEN i + 1 ELSE i
         IN  <<Append(SubSeq(text, 1, i - 1), "\n")>>
             \o FileLines(SubSeq(text, last + 1, Len(text)))

\* mutation of KeepsLine: the prefix tested on the stripped line
KeepsStripped(line) == Strip(line) # <<>> /\ StartsWith(Strip(line), PREFIX)

\* line 205: the filter of the list comprehension
KeepsLine(line) == Strip(line) # <<>> /\ StartsWith(line, PREFIX)

\* line 205: links = [line.strip() for line in f if ...]
ReadLinks(text) ==
    LET kept == SelectSeq(FileLines(text), KeepsLine)
    IN  [i \in 1..Len(kept) |-> Strip(kept[i])]

\* str.endswith
EndsWith(s, p) ==
    Len(s) >= Len(p) /\ SubSeq(s, Len(s) - Len(p) + 1, Len(s)) = p

\* line 197: the document is taken as a list of links
IsTextDocument(document) ==
    \/ document.mime_type = "text/plain"
    \/ EndsWith(document.file_name, <<".","t","x","t">>)

\* line 197: file_name.endswith is evaluated when the media type is not
\* text/plain, and raises on an upload without a file name
RaisesOnName(document) ==
    document.mime_type # "text/plain" /\ ~document.named

----------------------------------------------------------------------------
(* Inbound updates *)

ListTxt == <<"l","i","s","t",".","t","x","t">>
ListPdf == <<"l","i","s","t",".","p","d","f">>

\* named: the upload carries a file name (file_name is not None)
NoDocument ==
    [mime_type |-> "", named |-> FALSE, file_name |-> <<>>, file_id |-> "",
     text |-> <<>>, decodable |-> TRUE]

Upd(kind, user_id, args, text, document) ==
    [kind |-> kind, user_id |-> user_id, args |-> args, text |-> text,
     document |-> document]

Doc(mime_type, named, name, text, decodable) ==
    [mime_type |-> mime_type, named |-> named, file_name |-> name,
     file_id |-> "f1", text |-> text, decodable |-> decodable]

\* uploaded documents: every list as text/plain list.txt, and one list under
\* the other media types, names and encodings
Documents ==
    { Doc("text/plain", TRUE, ListTxt, t, TRUE) : t \in Contents }
    \cup { Doc(m, TRUE, n, LinkA \o NL \o HttpA \o NL, TRUE) :
             m \in {"text/plain", "application/pdf"}, n \in {ListTxt, ListPdf} }
    \cup { Doc(m, FALSE, <<>>, LinkA \o NL, TRUE) :
             m \in {"text/plain", "application/pdf"} }
    \cup { Doc("text/plain", TRUE, ListTxt, LinkA \o NL, FALSE) }

Updates ==
    { Upd("start", u, <<>>, <<>>, NoDocument) : u \in Users }
    \cup { Upd("download", u, a, <<>>, NoDocument) :
             u \in Users, a \in {<<>>} \cup { <<t>> : t \in Texts }
                                   \cup { <<HttpA, LinkA>>, <<LinkA, HttpA>> } }
    \cup { Upd("message", u, <<>>, t, NoDocument) : u \in Users, t \in Texts }
    \cup { Upd("document", u, <<>>, <<>>, d) : u \in Users, d \in Documents }

NoUpdate == Upd("none", 0, <<>>, <<>>, NoDocument)

----------------------------------------------------------------------------
(* Startup: lines 252-266 *)

\* line 254 as shipped
PLACEHOLDER == "YOUR_BOT_TOKEN_HERE"

\* what the operator may have written at line 254
Tokens == {PLACEHOLDER, "110201543:AAHdqTcvCH1vGWJxfSeofSAs0K5PALDsaw"}

\* mutation of IsPlaceholder: the startup test left out
IsPlaceholder_never(t) == FALSE

\* line 259
IsPlaceholder(t) == t = PLACEHOLDER

----------------------------------------------------------------------------
(* format_size: lines 97-103.  A size is written in base 1024, least
   significant digit first, so that sizes up to the PB range stay within
   the integers TLC can hold; size_bytes after s divisions by 1024.0 is
   the same digits with the point moved s places, which is exact in the
   floating point of the code for every size below 2^53. *)

\* line 100 and line 102
Base == 1024

\* how many base-1024 digits a size has
MaxDigits == 6

\* the digits tried: the least, the greatest, and two in between
DigitValues == {0, 1, 512, Base - 1}

Sizes == [1..MaxDigits -> DigitValues]

\* line 99
UNITS == <<"B", "KB", "MB", "GB", "TB">>

\* mutation of Below1024: the comparison of line 100 written as <=
AtMost1024(size, shifts) ==
    \/ \A j \in 1..Len(size) : j > shifts + 1 => size[j] = 0
    \/ \A j \in 1..Len(size) : size[j] = (IF j = shifts + 2 THEN 1 ELSE 0)

\* line 100: size_bytes < 1024.0, for size_bytes = size / 1024^shifts
Below1024(size, shifts) ==
    \A j \in 1..Len(size) : j > shifts + 1 => size[j] = 0

\* lines 99-103: the loop over the units; the result is the unit and the
\* number of divisions made, the printed magnitude being size / 1024^shifts
\* rendered with two decimals
RECURSIVE format_loop(_, _, _)
format_loop(size, shifts, units) ==
    IF units = <<>>
    THEN [unit |-> "PB", shifts |-> shifts]
    ELSE IF Below1024(size, shifts)
         THEN [unit |-> Head(units), shifts |-> shifts]
         ELSE format_loop(size, shifts + 1, Tail(units))

format_size(size_bytes) == format_loop(size_bytes, 0, UNITS)

NoResult == [unit |-> None, shifts |-> 0]

\* no call of format_size is running
NoFormat == [size |-> <<>>, result |-> NoResult]

----------------------------------------------------------------------------
(* State *)

\* the state before any update is handled
Fresh ==
    /\ links = [r \in Requests |-> <<>>]
    /\ idx = [r \in Requests |-> 0]
    /\ mega_link = [r \in Requests |-> <<>>]
    /\ message = [r \in Requests |-> "unset"]
    /\ file_name = [r \in Requests |-> None]
    /\ downloaded_file = [r \in Requests |-> None]
    /\ calls = [r \in Requests |-> <<>>]
    /\ log = [r \in Requests |-> <<>>]
    /\ files = [n \in FileNames |-> 0]
    /\ temp_files = {}

Init ==
    /\ \E u \in Updates : update = [r \in Requests |-> IF r = 1 THEN u ELSE NoUpdate]
    /\ pc = [r \in Requests |-> IF r = 1 THEN "entry" ELSE "idle"]
    /\ token \in Tokens
    /\ process = "main"
    /\ fmt = NoFormat
    /\ Fresh

\* the handler's own call, recorded with its argument and whether it returned
Logged(r, call, arg, ok) == [log EXCEPT ![r] = Append(@, <<call, <<arg>>, ok>>)]

\* a call made inside download_from_public_link
Called(r, call, arg, ok) == [calls EXCEPT ![r] = Append(@, <<call, arg, ok>>)]

\* update.message.reply_text(what) as the last statement before `next`;
\* when it raises outside a try block the error leaves the handler
reply_text(r, what, next) ==
    \E ok \in BOOLEAN :
        /\ log' = Logged(r, "reply_text", what, ok)
        /\ pc' = [pc EXCEPT ![r] = IF ok THEN next ELSE "raised"]

\* self.download_from_public_link(link, chat_id) is entered
enter_download(r, link) ==
    /\ mega_link' = [mega_link EXCEPT ![r] = link]
    /\ message' = [message EXCEPT ![r] = "unset"]
    /\ file_name' = [file_name EXCEPT ![r] = None]
    /\ calls' = [calls EXCEPT ![r] = <<>>]
    /\ UNCHANGED downloaded_file

\* where the handler goes on after the `if downloaded_file:` block
AfterItem(r) == IF update[r].kind = "document" THEN "sleep" ELSE "done"

\* download_from_public_link returns `result` to the handler, which goes on
\* without suspending: with a path it opens the file (lines 151, 177, 222)
\* and starts the upload, at whose await it waits with the file open; a file
\* that is gone makes open raise into the except clause
Returned(r, result) ==
    /\ downloaded_file' = [downloaded_file EXCEPT ![r] = result]
    /\ IF result = None
       THEN /\ pc' = [pc EXCEPT ![r] = AfterItem(r)]
            /\ UNCHANGED log
       ELSE IF files[result] # 0
       THEN /\ pc' = [pc EXCEPT ![r] = "reply_document"]
            /\ UNCHANGED log
       ELSE /\ pc' = [pc EXCEPT ![r] = "reply_error"]
            /\ log' = Logged(r, "open", result, FALSE)

\* the steps a handler takes without awaiting: the calls of the Mega client
\* (lines 57 and 75), os.remove (lines 157, 183, 227) and the reading of the
\* list (lines 204-207)
SyncPcs == {"get_public_file_info", "download_from_url", "os_remove", "read_links"}

\* request q is running, not suspended at an await: it stands before one of
\* the steps above, or in the except block with no progress message to edit
\* (lines 90-95 then return without awaiting)
Running(q) ==
    \/ pc[q] \in SyncPcs
    \/ pc[q] = "except" /\ message[q] = "unset"

\* request r stands at `where` and may take its step: one coroutine runs at
\* a time, and another one goes on only when every other is suspended at an
\* await
At(r, where) ==
    /\ pc[r] = where
    /\ \A q \in Requests \ {r} : ~Running(q)

----------------------------------------------------------------------------
(* Handler entries: the allow-list check and the dispatch *)

\* a handler that only answers: nothing but its log and position change
OnlyReplies ==
    UNCHANGED <<update, links, idx, mega_link, message, file_name,
                downloaded_file, calls, files, temp_files, token, process, fmt>>

\* lines 108-110, 132-134, 164-166, 192-194
deny(r) == reply_text(r, "not authorized", "done") /\ OnlyReplies

\* the handler calls download_from_public_link(link, ...): lines 146, 172
start_download(r, link) ==
    /\ enter_download(r, link)
    /\ log' = [log EXCEPT ![r] = Append(@, <<"download_from_public_link", link, TRUE>>)]
    /\ pc' = [pc EXCEPT ![r] = "send_message"]
    /\ UNCHANGED <<update, links, idx, files, temp_files, token, process, fmt>>

\* lines 105-127
start_command(r) ==
    /\ process = "polling"
    /\ At(r, "entry") /\ update[r].kind = "start"
    /\ IF ~Authorized(update[r].user_id)
       THEN deny(r)
       ELSE reply_text(r, "welcome", "done") /\ OnlyReplies

\* lines 129-146
download_command(r) ==
    /\ process = "polling"
    /\ At(r, "entry") /\ update[r].kind = "download"
    /\ IF ~Authorized(update[r].user_id)
       THEN deny(r)
       ELSE IF update[r].args = <<>>
       THEN reply_text(r, "provide a link", "done") /\ OnlyReplies
       ELSE IF ~StartsWith(update[r].args[1], PREFIX)
       THEN reply_text(r, "provide a valid link", "done") /\ OnlyReplies
       ELSE start_download(r, update[r].args[1])

\* lines 161-172, 186-187
handle_message(r) ==
    /\ process = "polling"
    /\ At(r, "entry") /\ update[r].kind = "message"
    /\ IF ~Authorized(update[r].user_id)
       THEN deny(r)
       ELSE IF StartsWith(update[r].text, PREFIX)
       THEN start_download(r, update[r].text)
       ELSE reply_text(r, "send a valid link", "done") /\ OnlyReplies

\* lines 189-197, 235-236
handle_document(r) ==
    /\ process = "polling"
    /\ At(r, "entry") /\ update[r].kind = "document"
    /\ IF ~Authorized(update[r].user_id)
       THEN deny(r)
       ELSE IF RaisesOnName(update[r].document)
       THEN /\ pc' = [pc EXCEPT ![r] = "raised"]
            /\ UNCHANGED log
            /\ OnlyReplies
       ELSE IF IsTextDocument(update[r].document)
       THEN /\ pc' = [pc EXCEPT ![r] = "get_file"]
            /\ UNCHANGED log
            /\ OnlyReplies
       ELSE reply_text(r, "upload a text file", "done") /\ OnlyReplies

----------------------------------------------------------------------------
(* download_from_public_link, lines 37-95 *)

InDownload ==
    UNCHANGED <<update, links, idx, mega_link, temp_files, token, process, fmt>>

\* lines 50-54: the progress message is sent
send_message(r) ==
    /\ At(r, "send_message")
    /\ \E ok \in BOOLEAN :
        /\ calls' = Called(r, "send_message", "processing", ok)
        /\ message' = [message EXCEPT ![r] = IF ok THEN "processing" ELSE @]
        /\ pc' = [pc EXCEPT ![r] = IF ok THEN "get_public_file_info" ELSE "except"]
    /\ UNCHANGED <<file_name, downloaded_file, files, log>>
    /\ InDownload

\* mutation of LookupNext: the `if not file_info` test of line 58 left out
LookupNext_unchecked(file_info) == "edit_info"

\* line 58: if not file_info
LookupNext(file_info) == IF file_info = None THEN "edit_invalid" ELSE "edit_info"

\* lines 57-63: the metadata lookup returns a name, returns nothing, or raises
get_public_file_info(r) ==
    /\ At(r, "get_public_file_info")
    /\ \/ \E file_info \in FileNames \cup {None} :
            /\ calls' = Called(r, "get_public_file_info", file_info, TRUE)
            /\ pc' = [pc EXCEPT ![r] = LookupNext(file_info)]
            /\ file_name' = [file_name EXCEPT ![r] =
                               IF pc'[r] = "edit_info" THEN file_info ELSE @]
       \/ /\ calls' = Called(r, "get_public_file_info", None, FALSE)
          /\ pc' = [pc EXCEPT ![r] = "except"]
          /\ UNCHANGED file_name
    /\ UNCHANGED <<message, downloaded_file, files, log>>
    /\ InDownload

\* mutation of edit_invalid: the `return None` of line 60 left out, so that
\* file_info['name'] raises into the except block
edit_invalid_noreturn(r) ==
    /\ At(r, "edit_invalid")
    /\ \E ok \in BOOLEAN :
        /\ calls' = Called(r, "edit_text", "invalid", ok)
        /\ message' = [message EXCEPT ![r] = IF ok THEN "invalid" ELSE @]
        /\ pc' = [pc EXCEPT ![r] = "except"]
    /\ UNCHANGED <<file_name, downloaded_file, files, log>>
    /\ InDownload

\* lines 59-60
edit_invalid(r) ==
    /\ At(r, "edit_invalid")
    /\ \/ /\ calls' = Called(r, "edit_text", "invalid", TRUE)
          /\ message' = [message EXCEPT ![r] = "invalid"]
          /\ Returned(r, None)
       \/ /\ calls' = Called(r, "edit_text", "invalid", FALSE)
          /\ pc' = [pc EXCEPT ![r] = "except"]
          /\ UNCHANGED <<message, downloaded_file, log>>
    /\ UNCHANGED <<file_name, files>>
    /\ InDownload

\* lines 65-70
edit_info(r) ==
    /\ At(r, "edit_info")
    /\ \E ok \in BOOLEAN :
        /\ calls' = Called(r, "edit_text", "info", ok)
        /\ message' = [message EXCEPT ![r] = IF ok THEN "info" ELSE @]
        /\ pc' = [pc EXCEPT ![r] = IF ok THEN "download_from_url" ELSE "except"]
    /\ UNCHANGED <<file_name, downloaded_file, files, log>>
    /\ InDownload

\* lines 73-79: the file is written under the reported name, over any file of
\* that name, or the download raises; the Mega client moves the file into the
\* directory only when it is complete, so a raise leaves the directory as it was
download_from_url(r) ==
    /\ At(r, "download_from_url")
    /\ \/ /\ calls' = Called(r, "download_from_url", file_name[r], TRUE)
          /\ files' = [files EXCEPT ![file_name[r]] = r]
          /\ pc' = [pc EXCEPT ![r] = "edit_completed"]
       \/ /\ calls' = Called(r, "download_from_url", file_name[r], FALSE)
          /\ pc' = [pc EXCEPT ![r] = "except"]
          /\ UNCHANGED files
    /\ UNCHANGED <<message, file_name, downloaded_file, log>>
    /\ InDownload

\* lines 81-88
edit_completed(r) ==
    /\ At(r, "edit_completed")
    /\ \/ /\ calls' = Called(r, "edit_text", "completed", TRUE)
          /\ message' = [message EXCEPT ![r] = "completed"]
          /\ Returned(r, file_name[r])
       \/ /\ calls' = Called(r, "edit_text", "completed", FALSE)
          /\ pc' = [pc EXCEPT ![r] = "except"]
          /\ UNCHANGED <<message, downloaded_file, log>>
    /\ UNCHANGED <<file_name, files>>
    /\ InDownload

\* mutation of except_handler: the error is logged but the progress message
\* is not edited
except_handler_silent(r) ==
    /\ At(r, "except")
    /\ Returned(r, None)
    /\ UNCHANGED <<calls, message, file_name, files>>
    /\ InDownload

\* lines 90-95: the except block; its own edit_text is not guarded
except_handler(r) ==
    /\ At(r, "except")
    /\ IF message[r] = "unset"
       THEN /\ Returned(r, None)
            /\ UNCHANGED <<calls, message>>
       ELSE \/ /\ calls' = Called(r, "edit_text", "failed", TRUE)
               /\ message' = [message EXCEPT ![r] = "failed"]
               /\ Returned(r, None)
            \/ /\ calls' = Called(r, "edit_text", "failed", FALSE)
               /\ pc' = [pc EXCEPT ![r] = "raised"]
               /\ UNCHANGED <<message, downloaded_file, log>>
    /\ UNCHANGED <<file_name, files>>
    /\ InDownload

----------------------------------------------------------------------------
(* The relay block of the three handlers: lines 148-159, 174-185, 220-229 *)

InRelay ==
    UNCHANGED <<update, links, idx, mega_link, message, file_name,
                downloaded_file, calls, temp_files, token, process, fmt>>

\* lines 152-155: the upload, awaited with the file already open, returns
\* or raises into the except clause, whatever became of the file meanwhile
reply_document(r) ==
    /\ At(r, "reply_document")
    /\ \E ok \in BOOLEAN :
        /\ log' = Logged(r, "reply_document", downloaded_file[r], ok)
        /\ pc' = [pc EXCEPT ![r] = IF ok THEN "os_remove" ELSE "reply_error"]
    /\ UNCHANGED files
    /\ InRelay

\* mutation of os_remove: the cleanup empties the whole download directory
os_remove_all(r) ==
    /\ At(r, "os_remove")
    /\ \/ /\ files[downloaded_file[r]] # 0
          /\ log' = Logged(r, "os.remove", downloaded_file[r], TRUE)
          /\ files' = [n \in FileNames |-> 0]
          /\ pc' = [pc EXCEPT ![r] = AfterItem(r)]
       \/ /\ log' = Logged(r, "os.remove", downloaded_file[r], FALSE)
          /\ pc' = [pc EXCEPT ![r] = "reply_error"]
          /\ UNCHANGED files
    /\ InRelay

\* lines 157, 183, 227: reached only when the upload returned
os_remove(r) ==
    /\ At(r, "os_remove")
    /\ \/ /\ files[downloaded_file[r]] # 0
          /\ log' = Logged(r, "os.remove", downloaded_file[r], TRUE)
          /\ files' = [files EXCEPT ![downloaded_file[r]] = 0]
          /\ pc' = [pc EXCEPT ![r] = AfterItem(r)]
       \/ /\ log' = Logged(r, "os.remove", downloaded_file[r], FALSE)
          /\ pc' = [pc EXCEPT ![r] = "reply_error"]
          /\ UNCHANGED files
    /\ InRelay

\* lines 158-159, 184-185, 228-229: the except clause of the relay block
reply_error(r) ==
    /\ At(r, "reply_error")
    /\ reply_text(r, "error sending file", AfterItem(r))
    /\ UNCHANGED files
    /\ InRelay

----------------------------------------------------------------------------
(* handle_document, the batch: lines 198-234 *)

InBatch ==
    UNCHANGED <<update, mega_link, message, file_name, downloaded_file,
                calls, files, token, process, fmt>>

\* line 199
get_file(r) ==
    /\ At(r, "get_file")
    /\ \E ok \in BOOLEAN :
        /\ log' = Logged(r, "get_file", update[r].document.file_id, ok)
        /\ pc' = [pc EXCEPT ![r] = IF ok THEN "download_to_drive" ELSE "raised"]
    /\ UNCHANGED <<links, idx, temp_files>>
    /\ InBatch

\* lines 200-201
download_to_drive(r) ==
    /\ At(r, "download_to_drive")
    /\ \E ok \in BOOLEAN :
        /\ log' = Logged(r, "download_to_drive", update[r].document.file_id, ok)
        /\ temp_files' = IF ok THEN temp_files \cup {update[r].document.file_id}
                               ELSE temp_files
        /\ pc' = [pc EXCEPT ![r] = IF ok THEN "read_links" ELSE "raised"]
    /\ UNCHANGED <<links, idx>>
    /\ InBatch

\* mutation of read_links: the os.remove of line 207 left out
read_links_keep(r) ==
    /\ At(r, "read_links")
    /\ LET document == update[r].document IN
       IF document.decodable /\ document.file_id \in temp_files
       THEN /\ links' = [links EXCEPT ![r] = ReadLinks(document.text)]
            /\ log' = Logged(r, "read_links", document.file_id, TRUE)
            /\ pc' = [pc EXCEPT ![r] = "report_links"]
            /\ UNCHANGED temp_files
       ELSE /\ log' = Logged(r, "read_links", document.file_id, FALSE)
            /\ pc' = [pc EXCEPT ![r] = "raised"]
            /\ UNCHANGED <<links, temp_files>>
    /\ UNCHANGED idx
    /\ InBatch

\* mutation of report_links: the test of line 209 left out
report_links_unchecked(r) ==
    /\ At(r, "report_links")
    /\ reply_text(r, "found links", IF links[r] = <<>> THEN "batch_completed" ELSE "announce")
    /\ idx' = [idx EXCEPT ![r] = IF pc'[r] = "raised" THEN @ ELSE 1]
    /\ UNCHANGED <<links, temp_files>>
    /\ InBatch

\* lines 204-207: read the list and remove it; text that cannot be decoded,
\* or a list file that is gone, raises before the removal
read_links(r) ==
    /\ At(r, "read_links")
    /\ LET document == update[r].document IN
       IF document.decodable /\ document.file_id \in temp_files
       THEN /\ links' = [links EXCEPT ![r] = ReadLinks(document.text)]
            /\ temp_files' = temp_files \ {document.file_id}
            /\ log' = Logged(r, "read_links", document.file_id, TRUE)
            /\ pc' = [pc EXCEPT ![r] = "report_links"]
       ELSE /\ log' = Logged(r, "read_links", document.file_id, FALSE)
            /\ pc' = [pc EXCEPT ![r] = "raised"]
            /\ UNCHANGED <<links, temp_files>>
    /\ UNCHANGED idx
    /\ InBatch

\* lines 209-216: the loop variable is bound only when the "Found N" reply
\* has returned
report_links(r) ==
    /\ At(r, "report_links")
    /\ IF links[r] = <<>>
       THEN reply_text(r, "no valid links", "done") /\ UNCHANGED idx
       ELSE /\ reply_text(r, "found links", "announce")
            /\ idx' = [idx EXCEPT ![r] = IF pc'[r] = "raised" THEN @ ELSE 1]
    /\ UNCHANGED <<links, temp_files>>
    /\ InBatch

\* lines 217-218: announce the position, then call the orchestrator
announce(r) ==
    /\ At(r, "announce")
    /\ \/ /\ enter_download(r, links[r][idx[r]])
          /\ log' = [log EXCEPT ![r] =
                       @ \o << <<"reply_text", <<"downloading">>, TRUE>>,
                               <<"download_from_public_link", links[r][idx[r]], TRUE>> >>]
          /\ pc' = [pc EXCEPT ![r] = "send_message"]
       \/ /\ log' = Logged(r, "reply_text", "downloading", FALSE)
          /\ pc' = [pc EXCEPT ![r] = "raised"]
          /\ UNCHANGED <<mega_link, message, file_name, calls, downloaded_file>>
    /\ UNCHANGED <<update, links, idx, files, temp_files, token, process, fmt>>

\* line 232, and the loop's step to the next link
sleep(r) ==
    /\ At(r, "sleep")
    /\ log' = Logged(r, "sleep", "2", TRUE)
    /\ IF idx[r] < Len(links[r])
       THEN /\ idx' = [idx EXCEPT ![r] = @ + 1]
            /\ pc' = [pc EXCEPT ![r] = "announce"]
       ELSE /\ pc' = [pc EXCEPT ![r] = "batch_completed"]
            /\ UNCHANGED idx
    /\ UNCHANGED <<links, temp_files>>
    /\ InBatch

\* line 234
batch_completed(r) ==
    /\ At(r, "batch_completed")
    /\ reply_text(r, "batch completed", "done")
    /\ UNCHANGED <<links, idx, temp_files>>
    /\ InBatch

----------------------------------------------------------------------------

\* the handlers of the requests
Handle ==
    \E r \in Requests :
        \/ start_command(r)
        \/ download_command(r)
        \/ handle_message(r)
        \/ handle_document(r)
        \/ send_message(r)
        \/ get_public_file_info(r)
        \/ edit_invalid(r)
        \/ edit_info(r)
        \/ download_from_url(r)
        \/ edit_completed(r)
        \/ except_handler(r)
        \/ reply_document(r)
        \/ os_remove(r)
        \/ reply_error(r)
        \/ get_file(r)
        \/ download_to_drive(r)
        \/ read_links(r)
        \/ report_links(r)
        \/ announce(r)
        \/ sleep(r)
        \/ batch_completed(r)

\* lines 259-266: with the placeholder token the process prints the setup
\* instructions and ends; otherwise the bot is built, the handlers are
\* registered and polling starts
main ==
    /\ process = "main"
    /\ process' = IF IsPlaceholder(token) THEN "printed" ELSE "polling"
    /\ UNCHANGED <<update, pc, links, idx, mega_link, message, file_name,
                   downloaded_file, calls, log, files, temp_files, token, fmt>>

Next == main \/ Handle

Spec == Init /\ [][Next]_vars

\* Two updates handled at once, the handlers interleaving at every await:
\* one update of each handler, the links valid and the users authorized
ConcUpdates ==
    { Upd("start", 123456789, <<>>, <<>>, NoDocument),
      Upd("download", 123456789, <<LinkA>>, <<>>, NoDocument),
      Upd("message", 123456789, <<>>, LinkB, NoDocument),
      Upd("document", 123456789, <<>>, <<>>,
          Doc("text/plain", TRUE, ListTxt, LinkA \o NL, TRUE)) }

ConcInit ==
    /\ update \in [Requests -> ConcUpdates]
    /\ pc = [r \in Requests |-> "entry"]
    /\ token \in Tokens
    /\ process = "main"
    /\ fmt = NoFormat
    /\ Fresh

ConcSpec == ConcInit /\ [][Next]_vars

\* format_size on its own: a call with any size of MaxDigits digits
FormatInit ==
    /\ update = [r \in Requests |-> NoUpdate]
    /\ pc = [r \in Requests |-> "idle"]
    /\ token \in Tokens \ {PLACEHOLDER}
    /\ process = "polling"
    /\ fmt \in {[size |-> d, result |-> NoResult] : d \in Sizes}
    /\ Fresh

format_size_call ==
    /\ fmt.size # <<>> /\ fmt.result = NoResult
    /\ fmt' = [fmt EXCEPT !.result = format_size(fmt.size)]
    /\ UNCHANGED <<update, pc, links, idx, mega_link, message, file_name,
                   downloaded_file, calls, log, files, temp_files, token, process>>

FormatNext == format_size_call

FormatSpec == FormatInit /\ [][FormatNext]_vars

\* every handler is scheduled until it returns or raises
FairSpec == Spec /\ WF_vars(Next)

----------------------------------------------------------------------------
(* Vocabulary of the properties *)

Last(s) == s[Len(s)]

Handlers == {"start", "download", "message", "document"}

\* the handler of r has returned, or an error has left it
Finished(r) == pc[r] \in {"done", "raised"}

DownloadPcs == {"send_message", "get_public_file_info", "edit_invalid",
                "edit_info", "download_from_url", "edit_completed", "except"}

RelayPcs == {"reply_document", "os_remove", "reply_error"}

\* the links download_from_public_link was called with, in call order
Handed(r) ==
    LET es == SelectSeq(log[r], LAMBDA e : e[1] = "download_from_public_link")
    IN  [i \in 1..Len(es) |-> es[i][2]]

\* the log of r from its latest call of download_from_public_link on
ItemLog(r) ==
    LET at == { i \in 1..Len(log[r]) : log[r][i][1] = "download_from_public_link" }
    IN  IF at = {} THEN <<>>
        ELSE SubSeq(log[r], CHOOSE i \in at : \A j \in at : j <= i, Len(log[r]))

Replied(r, what, ok) ==
    \E i \in 1..Len(log[r]) : log[r][i] = <<"reply_text", <<what>>, ok>>

\* the running or latest call of download_from_public_link has ended
CallOver(r) == calls[r] # <<>> /\ pc[r] \notin DownloadPcs

\* an error left download_from_public_link itself
RaisedInDownload(r) ==
    pc[r] = "raised" /\ log[r] # <<>> /\ Last(log[r])[1] = "download_from_public_link"

\* an error left the relay block
RaisedInRelay(r) ==
    /\ At(r, "raised") /\ log[r] # <<>>
    /\ Last(log[r]) = <<"reply_text", <<"error sending file">>, FALSE>>

\* the relay block was entered for the latest item
Relayed(r) ==
    \/ pc[r] \in RelayPcs
    \/ \E i \in 1..Len(ItemLog(r)) :
          \/ ItemLog(r)[i][1] \in {"open", "reply_document", "os.remove"}
          \/ ItemLog(r)[i][2] = <<"error sending file">>

\* handle_document has just read the uploaded list (lines 204-207) and is
\* about to report on it
LinksRead(r) == pc[r] = "report_links"

HasMegaPrefix(s) ==
    /\ Len(s) >= 16
    /\ <<s[1], s[2], s[3], s[4], s[5], s[6], s[7], s[8]>>
         = <<"h", "t", "t", "p", "s", ":", "/", "/">>
    /\ <<s[9], s[10], s[11], s[12], s[13], s[14], s[15], s[16]>>
         = <<"m", "e", "g", "a", ".", "n", "z", "/">>

----------------------------------------------------------------------------
(* C1 *)

NotAllowed(r) ==
    update[r].kind \in Handlers /\ update[r].user_id \notin AUTHORIZED_USERS

Denial(ok) == <<"reply_text", <<"not authorized">>, ok>>

\* C1: a request whose sender is not in the allow-list issues exactly one
\* call, the denial reply, and nothing else: no progress message, no metadata
\* lookup, no download, no fetch of a list file, no upload, no deletion.
C1_DenialOnly ==
    \A r \in Requests :
        NotAllowed(r) =>
            /\ pc[r] \in {"entry", "done", "raised"}
            /\ calls[r] = <<>>
            /\ links[r] = <<>>
            /\ \A n \in FileNames : files[n] # r
            /\ log[r] \in {<<>>, <<Denial(TRUE)>>, <<Denial(FALSE)>>}
            /\ Finished(r) => Len(log[r]) = 1

C1_Witness ==
    \E r \in Requests :
        /\ NotAllowed(r) /\ pc[r] = "done" /\ log[r] = <<Denial(TRUE)>>
        /\ update[r].kind = "document"
        /\ update[r].document.mime_type = "text/plain"
        /\ Len(update[r].document.text) > 16

----------------------------------------------------------------------------
(* C2 *)

DeleteFailed(r) ==
    \E i \in 1..Len(ItemLog(r)) :
        ItemLog(r)[i][1] = "os.remove" /\ ~ItemLog(r)[i][3]

\* C2: once the relay block of a request has been left without an error
\* leaving the handler, the downloaded file is gone, whether the upload
\* returned or raised, unless the delete itself failed.
C2_FileGoneAfterRelay ==
    \A r \in Requests :
        (/\ downloaded_file[r] # None
         /\ pc[r] \notin RelayPcs \cup DownloadPcs \cup {"raised"}
         /\ ~DeleteFailed(r))
            => files[downloaded_file[r]] = 0

----------------------------------------------------------------------------
(* C3 *)

AnnouncementFailed(r) ==
    \/ Replied(r, "found links", FALSE)
    \/ Replied(r, "downloading", FALSE)

\* C3: when the handler of a batch has ended and every position announcement
\* was delivered, download_from_public_link has been called with every link
\* of the batch, once each and in order, whatever happened to the items.
C3_EveryLinkHanded ==
    \A r \in Requests :
        (Finished(r) /\ links[r] # <<>> /\ ~AnnouncementFailed(r))
            => Handed(r) = links[r]

----------------------------------------------------------------------------
(* C4 *)

\* C4: a batch that was started ends with exactly one "batch completed"
\* reply, issued last, after every link was handed over.
C4_OneFinalSummary ==
    \A r \in Requests :
        (Finished(r) /\ Replied(r, "found links", TRUE))
            => /\ Last(log[r])[2] = <<"batch completed">>
               /\ Cardinality({ i \in 1..Len(log[r]) :
                                  log[r][i][2] = <<"batch completed">> }) = 1
               /\ Handed(r) = links[r]

----------------------------------------------------------------------------
(* C5 *)

\* C5: no error leaves the per-item pipeline: neither
\* download_from_public_link nor the relay block ends by raising.
C5_NothingEscapes ==
    \A r \in Requests : ~RaisedInDownload(r) /\ ~RaisedInRelay(r)

----------------------------------------------------------------------------
(* C6 *)

HasCall(r, call, arg, ok) ==
    \E i \in 1..Len(calls[r]) : calls[r][i] = <<call, arg, ok>>

CallsOf(r, call) == { i \in 1..Len(calls[r]) : calls[r][i][1] = call }

\* the metadata lookup of the running or latest call reported nothing
LookupNotFound(r) == HasCall(r, "get_public_file_info", None, TRUE)

\* download_from_public_link returned None to the handler
ReturnedNone(r) ==
    CallOver(r) /\ ~RaisedInDownload(r) /\ downloaded_file[r] = None

NoFileWritten(r) ==
    /\ CallsOf(r, "download_from_url") = {}
    /\ update[r].kind \in {"download", "message"} => \A n \in FileNames : files[n] # r

\* C6 as stated: after a lookup that reports the link as not found there is
\* no download, no local file and no relay, and the call ends with the
\* progress message showing the invalid-link notice and None returned.
C6_NotFoundAsStated ==
    \A r \in Requests :
        LookupNotFound(r) =>
            /\ NoFileWritten(r)
            /\ ~Relayed(r)
            /\ CallOver(r) => (message[r] = "invalid" /\ ReturnedNone(r))

\* C6 amended: after a lookup that reports the link as not found there is no
\* download, no local file, no relay and no artifact returned; the first
\* edit issued is the invalid-link notice, and when that edit is accepted the
\* message ends showing it and None is returned.
C6_NotFound ==
    \A r \in Requests :
        LookupNotFound(r) =>
            /\ NoFileWritten(r)
            /\ ~Relayed(r)
            /\ (CallOver(r) /\ ~RaisedInDownload(r)) => ReturnedNone(r)
            /\ \A i \in CallsOf(r, "edit_text") :
                  (\A j \in CallsOf(r, "edit_text") : i <= j) => calls[r][i][2] = "invalid"
            /\ CallOver(r) => CallsOf(r, "edit_text") # {}
            /\ HasCall(r, "edit_text", "invalid", TRUE)
                  => (message[r] = "invalid" /\ ReturnedNone(r))

C6_Witness ==
    \E r \in Requests :
        /\ LookupNotFound(r) /\ pc[r] = "done" /\ message[r] = "invalid"
        /\ update[r].kind = "download"

----------------------------------------------------------------------------
(* C7 *)

\* the metadata lookup or the download of the running or latest call raised
FetchRaised(r) ==
    \E i \in 1..Len(calls[r]) :
        calls[r][i][1] \in {"get_public_file_info", "download_from_url"} /\ ~calls[r][i][3]

\* C7: each call of download_from_public_link issues the lookup and the
\* download at most once; when either raises, the call ends with an edit of
\* the existing progress message to the error text (shown when the edit is
\* accepted) and hands no artifact to the handler.
C7_FailureIsFinal ==
    \A r \in Requests :
        /\ Cardinality(CallsOf(r, "get_public_file_info")) <= 1
        /\ Cardinality(CallsOf(r, "download_from_url")) <= 1
        /\ FetchRaised(r) =>
            /\ (CallOver(r) /\ ~RaisedInDownload(r)) => ReturnedNone(r)
            /\ ~Relayed(r)
            /\ calls[r][1] = <<"send_message", "processing", TRUE>>
            /\ CallOver(r) =>
                  /\ Last(calls[r])[1] = "edit_text" /\ Last(calls[r])[2] = "failed"
                  /\ Last(calls[r])[3] => message[r] = "failed"

C7_Witness ==
    \E r \in Requests :
        /\ HasCall(r, "download_from_url", "a.zip", FALSE)
        /\ pc[r] = "done" /\ message[r] = "failed"

----------------------------------------------------------------------------
(* C8 *)

ShownMoves ==
    { <<"unset", "processing">>, <<"processing", "info">>, <<"info", "completed">>,
      <<"processing", "invalid">>, <<"info", "invalid">>,
      <<"processing", "failed">>, <<"info", "failed">> }

ShownFinal == {"completed", "invalid", "failed"}

\* every state of a call: one progress message at most, edits only of a
\* message that was sent, "completed" only after a download that returned
C8_State ==
    \A r \in Requests :
        /\ Cardinality(CallsOf(r, "send_message")) <= 1
        /\ CallsOf(r, "edit_text") # {} => calls[r][1] = <<"send_message", "processing", TRUE>>
        /\ message[r] = "completed" =>
              \E i \in CallsOf(r, "download_from_url") :
                  calls[r][i][3] /\ \A j \in CallsOf(r, "edit_text") :
                                       calls[r][j][2] = "completed" => i < j

\* every step within a call: the message moves along the allowed edges only,
\* and once it shows a final notice the call issues nothing more
C8_Step ==
    \A r \in Requests :
        pc'[r] # "send_message" =>
            /\ message'[r] # message[r] => <<message[r], message'[r]>> \in ShownMoves
            /\ message[r] \in ShownFinal => (message'[r] = message[r] /\ calls'[r] = calls[r])

\* C8: a call of download_from_public_link creates at most one progress
\* message and edits only it; the message moves processing -> info known ->
\* completed, or from processing / info known to a failure notice; it shows
\* "completed" only after the download returned; after "completed" or a
\* failure notice it is not edited again.
C8_ProgressMessage == [](C8_State) /\ [][C8_Step]_vars

C8_Witness ==
    \E r \in Requests :
        /\ message[r] = "completed" /\ pc[r] = "done"
        /\ Len(calls[r]) = 5

----------------------------------------------------------------------------
(* C9 *)

\* the text a single-link handler tests
GivenText(r) ==
    IF update[r].kind = "download" THEN update[r].args[1] ELSE update[r].text

Rejection(r) ==
    IF update[r].kind = "download" THEN "provide a valid link" ELSE "send a valid link"

SingleLinkRequest(r) ==
    /\ update[r].user_id \in AUTHORIZED_USERS
    /\ \/ update[r].kind = "download" /\ update[r].args # <<>>
       \/ update[r].kind = "message"

\* C9: download_from_public_link is only ever called with, and only ever
\* works on, a link that has the prefix at position 0; a single-link text
\* without it gets the fixed rejection reply and nothing else; an uploaded
\* list keeps as many links as it has lines with the prefix at position 0.
C9_OnlyMegaLinks ==
    \A r \in Requests :
        /\ \A i \in 1..Len(Handed(r)) : HasMegaPrefix(Handed(r)[i])
        /\ calls[r] # <<>> => HasMegaPrefix(mega_link[r])
        /\ (SingleLinkRequest(r) /\ ~HasMegaPrefix(GivenText(r))) =>
              /\ calls[r] = <<>>
              /\ Handed(r) = <<>>
              /\ Finished(r) => /\ Len(log[r]) = 1
                                /\ log[r][1][1] = "reply_text"
                                /\ log[r][1][2] = <<Rejection(r)>>
        /\ \A i \in 1..Len(links[r]) : HasMegaPrefix(links[r][i])
        /\ LinksRead(r) =>
              Len(links[r]) = Len(SelectSeq(FileLines(update[r].document.text),
                                            HasMegaPrefix))

C9_Witness ==
    \E r \in Requests :
        /\ SingleLinkRequest(r) /\ GivenText(r) = MidA /\ pc[r] = "done"
        /\ update[r].kind = "message"

----------------------------------------------------------------------------
(* C10 *)

\* a line without its terminator
Chomp(line) ==
    IF line # <<>> /\ Last(line) = "\n" THEN SubSeq(line, 1, Len(line) - 1) ELSE line

\* the lines of the uploaded list that are non-empty and pass the validator
ValidLines(r) ==
    LET ls == FileLines(update[r].document.text)
        chomped == [i \in 1..Len(ls) |-> Chomp(ls[i])]
    IN  SelectSeq(chomped, LAMBDA l : l # <<>> /\ HasMegaPrefix(l))

White == WhiteSpace

\* t is l without the white space around it
IsTrimOf(t, l) ==
    /\ t # <<>> /\ t[1] \notin White /\ Last(t) \notin White
    /\ \E a \in 0..Len(l) :
          /\ a + Len(t) <= Len(l)
          /\ SubSeq(l, a + 1, a + Len(t)) = t
          /\ \A i \in 1..Len(l) : (i <= a \/ i > a + Len(t)) => l[i] \in White

\* C10 as stated: the batch is exactly the sequence of the valid lines.
C10_ExactLines ==
    \A r \in Requests : LinksRead(r) => links[r] = ValidLines(r)

\* C10 amended: the batch is the sequence of the valid lines, in order and
\* with duplicates, each with the white space around it removed.
C10_TrimmedLines ==
    \A r \in Requests :
        LinksRead(r) =>
            LET valid == ValidLines(r) IN
            /\ Len(links[r]) = Len(valid)
            /\ \A i \in 1..Len(links[r]) : IsTrimOf(links[r][i], valid[i])

C10_Witness ==
    \E r \in Requests :
        /\ LinksRead(r)
        /\ update[r].document.text = LinkA \o SP \o FF \o EM \o CR \o NL \o LinkA \o NL
        /\ links[r] = <<LinkA, LinkA>>


----------------------------------------------------------------------------
(* C17 *)

\* a request that no handler has touched
Untouched(r) == pc[r] \in {"entry", "idle"} /\ log[r] = <<>> /\ calls[r] = <<>>

\* C17: with the placeholder token the process prints the setup instructions
\* and ends: the bot is never built, no handler ever runs and polling never
\* starts; polling is started only with a token that differs from the
\* placeholder, and the instructions are printed only for the placeholder.
C17_PlaceholderNeverStarts ==
    /\ token = "YOUR_BOT_TOKEN_HERE" =>
          /\ process \in {"main", "printed"}
          /\ \A r \in Requests : Untouched(r)
    /\ process = "polling" => token # "YOUR_BOT_TOKEN_HERE"
    /\ process = "printed" => token = "YOUR_BOT_TOKEN_HERE"

C17_Witness == token = "YOUR_BOT_TOKEN_HERE" /\ process = "printed"

----------------------------------------------------------------------------
(* C18 *)

\* the number of significant base-1024 digits of a size: n < 1024^e exactly
\* when n has at most e digits
NumDigits(size) ==
    IF \A j \in 1..Len(size) : size[j] = 0 THEN 0
    ELSE CHOOSE j \in 1..Len(size) :
            size[j] # 0 /\ \A i \in (j + 1)..Len(size) : size[i] = 0

LessThanPower(size, e) == NumDigits(size) <= e

\* the smallest k in 0..4 with n < 1024^(k+1), and 5 when there is none
UnitIndex(size) ==
    IF \E k \in 0..4 : LessThanPower(size, k + 1)
    THEN CHOOSE k \in 0..4 :
            /\ LessThanPower(size, k + 1)
            /\ \A j \in 0..(k - 1) : ~LessThanPower(size, j + 1)
    ELSE 5

UnitNames == <<"B", "KB", "MB", "GB", "TB", "PB">>

\* the size is the number v, for v below 1024^2
IsNumber(size, v) ==
    /\ NumDigits(size) <= 2
    /\ size[1] + 1024 * size[2] = v

\* the size is 1024^e
IsPower(size, e) ==
    \A j \in 1..Len(size) : size[j] = (IF j = e + 1 THEN 1 ELSE 0)

\* C18: format_size(n) names the unit of index k, the smallest k in 0..4 with
\* n < 1024^(k+1), and PB when n >= 1024^5; the unit is one of B, KB, MB, GB,
\* TB, PB; 0 is in B, 1024 and 1536 are in KB, 1024^4 is in TB; and the
\* magnitude printed is n / 1024^k.
C18_UnitAndMagnitude ==
    fmt.result # NoResult =>
        LET n == fmt.size
            k == UnitIndex(n)
        IN /\ fmt.result.unit = UnitNames[k + 1]
           /\ fmt.result.shifts = k
           /\ fmt.result.unit \in {"B", "KB", "MB", "GB", "TB", "PB"}
           /\ k = 5 <=> ~LessThanPower(n, 5)
           /\ IsNumber(n, 0) => fmt.result.unit = "B"
           /\ IsNumber(n, 1024) => fmt.result.unit = "KB"
           /\ IsNumber(n, 1536) => fmt.result.unit = "KB"
           /\ IsPower(n, 4) => fmt.result.unit = "TB"

C18_Witness ==
    /\ fmt.result # NoResult
    /\ IsPower(fmt.size, 5)
    /\ fmt.result = [unit |-> "PB", shifts |-> 5]

----------------------------------------------------------------------------
(* C11 *)

Waits(r) == { i \in 1..Len(log[r]) : log[r][i][1] = "sleep" }

ItemStarts(r) == { i \in 1..Len(log[r]) : log[r][i][1] = "download_from_public_link" }

\* C11: a batch of N links whose handler has ended, every announcement having
\* been delivered, has waited exactly N times: once after each item's
\* download and relay, whatever their outcome, and before the next item's
\* announcement or the final summary.
C11_OneWaitPerItem ==
    \A r \in Requests :
        (Finished(r) /\ links[r] # <<>> /\ ~AnnouncementFailed(r)) =>
            /\ Cardinality(Waits(r)) = Len(links[r])
            /\ \A d \in ItemStarts(r) :
                  \E w \in Waits(r) :
                      /\ w > d
                      /\ \A e \in ItemStarts(r) : e > d => e > w
            /\ \A w \in Waits(r) :
                  /\ w < Len(log[r])
                  /\ log[r][w + 1][1] = "reply_text"
                  /\ log[r][w + 1][2] \in {<<"downloading">>, <<"batch completed">>}

----------------------------------------------------------------------------
(* C12 *)

\* the step in which the relay of r opens the file of its download
Opens(r) == pc[r] = "edit_completed" /\ pc'[r] \in {"reply_document", "reply_error"}

\* C12 as stated: under concurrent handling every request whose download
\* succeeded finds its own file present when its relay opens it.
C12_OwnFileAtRelay ==
    [][\A r \in Requests : Opens(r) => files[file_name[r]] = r]_vars

\* another request has downloaded a file of this name
SameNameDownloaded(r, n) ==
    \E q \in Requests \ {r} : HasCall(q, "download_from_url", n, TRUE)

\* a step that changes the file n is a step of a request working on the name n
ChangedBySameName ==
    \A n \in FileNames :
        files'[n] # files[n] =>
            \E q \in Requests : pc'[q] # pc[q] /\ file_name[q] = n

\* C12, amended: a file is overwritten or deleted only by a request that
\* works on a file of the same name, and a request whose download succeeded
\* finds its own file present when its relay opens it unless another request
\* has downloaded a file of the same name.
C12_OwnFileUnlessSameName ==
    /\ [][\A r \in Requests :
            Opens(r) => \/ files[file_name[r]] = r
                        \/ SameNameDownloaded(r, file_name[r])]_vars
    /\ [][ChangedBySameName]_vars

\* a relay is about to open its own file while the other request holds a
\* file of another name
C12_Witness ==
    /\ pc[1] = "reply_document" /\ files[downloaded_file[1]] = 1
    /\ \E n \in FileNames : n # downloaded_file[1] /\ files[n] = 2

----------------------------------------------------------------------------
(* C13 *)

\* the files in the download directory that request r wrote
ArtifactsOf(r) == { n \in FileNames : files[n] = r }

\* C13: within a batch the next item is started only when the download, the
\* relay and the cleanup of the item before it are over, so nothing the batch
\* wrote is left when an item is announced, and the batch never has more
\* than one file in the download directory.
C13_OneArtifactAtATime ==
    \A r \in Requests :
        update[r].kind = "document" =>
            /\ pc[r] \in {"announce", "batch_completed"} => ArtifactsOf(r) = {}
            /\ Cardinality(ArtifactsOf(r)) <= 1

----------------------------------------------------------------------------
(* C14 *)

\* the temporary list file of the upload of r is on disk
TempExists(r) == update[r].document.file_id \in temp_files

\* the list file of r was written to disk
TempCreated(r) ==
    \E i \in 1..Len(log[r]) : log[r][i] = <<"download_to_drive", <<"f1">>, TRUE>>

\* what r has logged since the list was read
SinceRead(r) ==
    LET at == { i \in 1..Len(log[r]) : log[r][i][1] = "read_links" /\ log[r][i][3] }
    IN  IF at = {} THEN <<>>
        ELSE SubSeq(log[r], (CHOOSE i \in at : TRUE) + 1, Len(log[r]))

\* C14: the temporary list file is gone as soon as the list has been parsed:
\* it does not exist when the "no valid links" reply is sent, when the first
\* or any later download is started or running, or when handle_document
\* returns.
C14_TempFileGone ==
    \A r \in Requests :
        (update[r].kind = "document" /\ TempCreated(r)) =>
            /\ pc[r] = "report_links" => ~TempExists(r)
            /\ pc[r] \in {"announce", "sleep", "batch_completed"}
                          \cup DownloadPcs \cup RelayPcs => ~TempExists(r)
            /\ pc[r] = "done" => ~TempExists(r)

C14_Witness ==
    /\ pc[1] = "done" /\ TempCreated(1) /\ ~TempExists(1)
    /\ Replied(1, "no valid links", TRUE)

----------------------------------------------------------------------------
(* C15 *)

\* C15: a list with no valid link gets the "no valid links" reply and nothing
\* else: after the reading, that reply is the only call the handler makes;
\* there is no announcement, lookup, download, relay, wait or "batch
\* completed" reply, and the handler is over once the reply was attempted.
C15_NoValidLinksStops ==
    \A r \in Requests :
        (update[r].kind = "document" /\ links[r] = <<>>
            /\ pc[r] \notin {"entry", "get_file", "download_to_drive", "read_links"}
            /\ (\E i \in 1..Len(log[r]) : log[r][i][1] = "read_links" /\ log[r][i][3])) =>
            /\ calls[r] = <<>> /\ ArtifactsOf(r) = {}
            /\ pc[r] \in {"report_links", "done", "raised"}
            /\ pc[r] = "report_links" => SinceRead(r) = <<>>
            /\ pc[r] = "done" =>
                  SinceRead(r) = << <<"reply_text", <<"no valid links">>, TRUE>> >>
            /\ pc[r] = "raised" =>
                  SinceRead(r) = << <<"reply_text", <<"no valid links">>, FALSE>> >>

C15_Witness ==
    /\ pc[1] = "done" /\ links[1] = <<>>
    /\ update[1].document.text = HttpA \o NL \o SP \o LinkA \o NL
    /\ Last(log[1]) = <<"reply_text", <<"no valid links">>, TRUE>>

----------------------------------------------------------------------------
(* C16 *)

EndsDotTxt(name) ==
    /\ Len(name) >= 4
    /\ <<name[Len(name) - 3], name[Len(name) - 2], name[Len(name) - 1], name[Len(name)]>>
         = <<".", "t", "x", "t">>

\* the media type is text/plain, or there is a file name and it ends in .txt
TextUpload(document) ==
    \/ document.mime_type = "text/plain"
    \/ document.named /\ EndsDotTxt(document.file_name)

\* C16: the handler of an authorized upload, once entered, treats the
\* document as a batch (it fetches it first) exactly when it is a text
\* upload; for any other document its one and only call is the "upload a
\* text file" reply, with no fetch and no download.
C16_TextFilesOnly ==
    \A r \in Requests :
        (/\ update[r].kind = "document"
         /\ update[r].user_id \in AUTHORIZED_USERS
         /\ pc[r] # "entry") =>
            IF TextUpload(update[r].document)
            THEN pc[r] = "get_file" \/ (log[r] # <<>> /\ log[r][1][1] = "get_file")
            ELSE /\ Finished(r) /\ calls[r] = <<>>
                 /\ \E ok \in BOOLEAN :
                       log[r] = << <<"reply_text", <<"upload a text file">>, ok>> >>

----------------------------------------------------------------------------
(* C19 *)

\* C19: when download_from_public_link has returned None, no file that the
\* call downloaded is left in the download directory.
C19_NoFileAfterFailure ==
    \A r \in Requests : \A n \in FileNames :
        (ReturnedNone(r) /\ HasCall(r, "download_from_url", n, TRUE))
            => files[n] # r

====
